---- MODULE Spec2Model ----
(***************************************************************************)
(* Model of the chat hook of Clotho (src/Clotho/src/hooks/useChatbot.ts):  *)
(* the conversation log, the isLoading / isStreaming flags and the         *)
(* sendMessage runs that stream a reply into the log, together with        *)
(* clearChat and the millisecond clock the message ids are taken from.     *)
(*                                                                         *)
(* A sendMessage call is one run.  A run suspends at `await fetch` and at  *)
(* every `await reader.read()`; everything between two suspension points   *)
(* is one atomic action (JavaScript runs a continuation to completion, and *)
(* React applies functional state updates in the order they were issued).  *)
(***************************************************************************)
EXTENDS Integers, Sequences, FiniteSets

(* ------------------------------ bounds -------------------------------- *)

\* events of the environment that are modelled: every sendMessage call,
\* every clearChat click, every byte (or line of protocol text) the network
\* delivers and every advance of the millisecond clock is one event
MaxEvents == 5
\* first value of Date.now()
ClockStart == 2

\* the sendMessage calls, in the order they are made
Runs == 1..MaxEvents

(* ------------------------------- text --------------------------------- *)

\* Bytes on the wire: an ASCII letter, an ASCII space, the lead byte of a
\* two-byte UTF-8 sequence and its continuation byte.
Bytes == {"a", " ", "L", "T"}

\* the bytes of a reply that is plain ASCII
Ascii == {"a", " "}

\* every chunk the reader can deliver: a non-empty Uint8Array
ByteChunks == UNION {[1..n -> Bytes] : n \in 1..MaxEvents}

\* the chunks of a reply that is plain ASCII
AsciiChunks == UNION {[1..n -> Ascii] : n \in 1..MaxEvents}

\* Lines of protocol text a server may put on the wire, each standing for
\* the ASCII characters of the whole line: `data: {"content":"a"}`,
\* `data: {"done":true}` and a line that is neither.
LineContent == "data: {content: a}"
LineDone == "data: {done: true}"
LineGarbage == "not json at all"
Lines == {LineContent, LineDone, LineGarbage}

\* the chunks of a reply made of such lines and of the whitespace between them
LineChunks == UNION {[1..n -> Lines \cup {" "}] : n \in 1..MaxEvents}

\* what the user can type into the textarea
Inputs == {<<" ">>, <<" ", "a">>}

\* the apology of the catch block and the greeting of the initial log
Apology == <<"APOLOGY">>
GreetingText == <<"GREETING">>

\* assistantMessageId = null
NoId == 0

\* String.prototype.trim() leaves nothing: s is empty or whitespace only
IsBlank(s) == \A i \in 1..Len(s) : s[i] = " "

RECURSIVE TrimLeft(_)
TrimLeft(s) == IF s # <<>> /\ Head(s) = " " THEN TrimLeft(Tail(s)) ELSE s

RECURSIVE TrimRight(_)
TrimRight(s) ==
    IF s # <<>> /\ s[Len(s)] = " " THEN TrimRight(SubSeq(s, 1, Len(s) - 1)) ELSE s

\* String.prototype.trim()
Trim(s) == TrimRight(TrimLeft(s))

\* s is a prefix of t
IsPrefix(s, t) == Len(s) <= Len(t) /\ SubSeq(t, 1, Len(s)) = s

\* One byte through the streaming UTF-8 decoder.  st.pend says that a lead
\* byte is waiting for its continuation byte; "e" is the decoded two-byte
\* character and "?" is U+FFFD.
DecodeByte(st, b) ==
    IF st.pend
    THEN CASE b = "T" -> [text |-> Append(st.text, "e"), pend |-> FALSE]
           [] b = "L" -> [text |-> Append(st.text, "?"), pend |-> TRUE]
           [] OTHER   -> [text |-> st.text \o <<"?", b>>, pend |-> FALSE]
    ELSE CASE b = "L" -> [text |-> st.text, pend |-> TRUE]
           [] b = "T" -> [text |-> Append(st.text, "?"), pend |-> FALSE]
           [] OTHER   -> [text |-> Append(st.text, b), pend |-> FALSE]

RECURSIVE DecodeFrom(_, _)
DecodeFrom(st, bytes) ==
    IF bytes = <<>> THEN st ELSE DecodeFrom(DecodeByte(st, Head(bytes)), Tail(bytes))

\* a variant without { stream: true }: every call starts afresh and flushes
\* an incomplete sequence at the end of the chunk
Decode_NoStream(pend, bytes) ==
    LET d == DecodeFrom([text |-> <<>>, pend |-> FALSE], bytes) IN
        [text |-> IF d.pend THEN Append(d.text, "?") ELSE d.text, pend |-> FALSE]

\* decoder.decode(value, { stream: true }) with the decoder's carried state
Decode(pend, bytes) == DecodeFrom([text |-> <<>>, pend |-> pend], bytes)

(* ------------------------------ messages ------------------------------ *)

NewMessage(id, role, content, ts) ==
    [id |-> id, role |-> role, content |-> content, timestamp |-> ts]

\* the initial log and the log after clearChat
Greeting(ts) == NewMessage(1, "assistant", GreetingText, ts)

\* a variant that tests `chunk` alone, without the trim
Accepts_NoTrim(chunk) == chunk # <<>>

\* `chunk && chunk.trim()`
Accepts(chunk) == chunk # <<>> /\ ~IsBlank(chunk)

\* a variant that writes chunk + msg.content
Concat_Prepend(content, chunk) == chunk \o content

\* msg.content + chunk
Concat(content, chunk) == content \o chunk

\* prev.map(msg => msg.id === assistantMessageId ? {...msg, content: msg.content + chunk} : msg)
AppendChunk(msgs, id, chunk) ==
    [i \in 1..Len(msgs) |->
        IF msgs[i].id = id
        THEN [msgs[i] EXCEPT !.content = Concat(msgs[i].content, chunk)]
        ELSE msgs[i]]

\* a variant that keeps the partial text: msg.content + apology
ErrorContent_Keep(content) == content \o Apology

\* the content the catch block writes into an existing message
ErrorContent(content) == Apology

\* prev.map(msg => msg.id === assistantMessageId ? {...msg, content: apology} : msg)
ReplaceWithError(msgs, id) ==
    [i \in 1..Len(msgs) |->
        IF msgs[i].id = id
        THEN [msgs[i] EXCEPT !.content = ErrorContent(msgs[i].content)]
        ELSE msgs[i]]

\* a variant that only replaces, and surfaces nothing when no message exists
CatchBlock_ReplaceOnly(msgs, amid, t) == ReplaceWithError(msgs, amid)

\* the catch block: create or replace the assistant message
CatchBlock(msgs, amid, t) ==
    IF amid = NoId
    THEN Append(msgs, NewMessage(t + 1, "assistant", Apology, t))
    ELSE ReplaceWithError(msgs, amid)

(* ------------------------------ analysis ------------------------------ *)

\* useState<AnalysisResult | null>(null)
NoData == "null"

\* useState<string | null>(null): a message is a sequence of its parts, and
\* no message that is ever set is empty
NoError == <<>>

\* a variant of resetConversationId that keeps the id
NewConversationId_Same(id) == id

\* resetConversationId: setConversationId(uuidv4()); the ids are numbered in
\* the order they are drawn, a value never drawn before each time
NewConversationId(id) == id + 1

\* the four slots of AnalysisFiles; TRUE: a File, FALSE: null
FileSlots == {"sales", "inventory", "materials", "bom"}
Files == [FileSlots -> BOOLEAN]
NoFiles == [f \in FileSlots |-> FALSE]

\* fileCount of UploadPanel
FileCount(files) == Cardinality({f \in FileSlots : files[f]})

\* a variant of the validation that does not look at files.bom
MissingFiles_NoBom(files) ==
    (IF files["sales"] THEN <<>> ELSE <<"Sales history">>)
    \o (IF files["inventory"] THEN <<>> ELSE <<"Inventory">>)
    \o (IF files["materials"] THEN <<>> ELSE <<"Raw materials">>)

\* missingFiles of analyze
MissingFiles(files) ==
    (IF files["sales"] THEN <<>> ELSE <<"Sales history">>)
    \o (IF files["inventory"] THEN <<>> ELSE <<"Inventory">>)
    \o (IF files["materials"] THEN <<>> ELSE <<"Raw materials">>)
    \o (IF files["bom"] THEN <<>> ELSE <<"Bill of materials">>)

\* `Please select all required files: ${missingFiles.join(", ")}`
MissingError(files) == <<"Please select all required files">> \o MissingFiles(files)

\* error.status is undefined
NoStatus == -1

\* HTTP statuses of the analysis endpoint: one 2xx and one that is not
Statuses == {200, 404}

\* res.ok
IsOk(status) == status >= 200 /\ status <= 299

\* The body of a response that is not ok: JSON with a message field, JSON
\* with an error field only, JSON with neither, the JSON `null`, text that
\* is not JSON, nothing, or a body whose read fails.
ErrorBodies == {"json_message", "json_error", "json_other", "json_null",
                "text", "empty", "unreadable"}

\* The body of a response that is ok: an AnalysisResult without risk
\* alerts, one with an expiry alert, the JSON `null`, or text that is not JSON.
OkBodies == {"plan", "plan_alert", "json_null", "not_json"}

\* the messages of the TypeError fetch rejects with: "Failed to fetch"
\* (Chromium), "Load failed" (WebKit)
FetchErrors == {<<"Failed", "to", "fetch">>, <<"Load", "failed">>}

\* what fetch can do for POST /analyze
FetchOutcomes ==
    {[kind |-> "reject", status |-> NoStatus, body |-> "", message |-> m] :
        m \in FetchErrors}
    \cup {[kind |-> "response", status |-> st, body |-> b, message |-> <<>>] :
             st \in {x \in Statuses : ~IsOk(x)}, b \in ErrorBodies}
    \cup {[kind |-> "response", status |-> st, body |-> b, message |-> <<>>] :
             st \in {x \in Statuses : IsOk(x)}, b \in OkBodies}

NoFetch == [kind |-> "none", status |-> NoStatus, body |-> "", message |-> <<>>]

\* error.message.includes("fetch")
Includes(message, word) == \E i \in 1..Len(message) : message[i] = word

\* res.status in a template string
StatusString(status) == IF status = 404 THEN "404" ELSE "200"

\* errorMessage of a response that is not ok
ErrorMessage(status, body) ==
    CASE body = "unreadable"   -> <<"HTTP", StatusString(status), "statusText">>
      [] body = "empty"        -> <<"HTTP", StatusString(status)>>
      [] body = "json_message" -> <<"json.message">>
      [] body = "json_error"   -> <<"json.error">>
      [] body = "json_other"   -> <<"HTTP", StatusString(status)>>
      [] OTHER                 -> <<"text", body>>

\* what analyzeCsvs throws
Thrown(name, status, message) ==
    [returns |-> FALSE, data |-> NoData, name |-> name, status |-> status,
     message |-> message]

\* analyzeCsvs: what it returns or throws for what fetch did
AnalyzeCsvs(o) ==
    IF o.kind = "reject"
    THEN IF Includes(o.message, "fetch")
         THEN Thrown("Error", 0, <<"Network error - please check your connection">>)
         ELSE Thrown("TypeError", NoStatus, o.message)
    ELSE IF ~IsOk(o.status)
    THEN Thrown("Error", o.status, ErrorMessage(o.status, o.body))
    ELSE IF o.body = "not_json"
    THEN Thrown("SyntaxError", NoStatus, <<"Unexpected token">>)
    ELSE [returns |-> TRUE, data |-> IF o.body = "json_null" THEN NoData ELSE o.body,
          name |-> "", status |-> NoStatus, message |-> <<>>]

\* the error the catch block of analyze sets for what was thrown
CatchError(e) ==
    IF e.status = 0
    THEN <<"Network connection failed">>
    ELSE IF e.status # NoStatus /\ e.status >= 400
    THEN e.message
    ELSE IF e.message # <<>> THEN e.message ELSE <<"Failed to analyze files">>

(* ------------------------------- state -------------------------------- *)

VARIABLES
    messages,            \* useState<ChatMessage[]>: the conversation log
    isLoading,           \* useState(false)
    isStreaming,         \* useState(false)
    conversationId,      \* the context's conversation id (a fresh value per reset)
    now,                 \* Date.now()
    pc,                  \* where each sendMessage call stands
    assistantMessageId,  \* the local of each call
    pending,             \* each call's TextDecoder: a lead byte is carried over
    locked,              \* response.body.locked: each call's reader holds the stream
    request,             \* the body of each call's POST /chat
    reads,               \* reader.read() calls issued by each call
    resolved,            \* reader.read() calls that have resolved
    wire,                \* the bytes each call's reader has delivered
    received,            \* the decoded text of all chunks each call has read
    accepted,            \* the decoded text of the chunks each call accepted
    appended,            \* assistant messages each call has appended to the log
    ownIndex,            \* where in the log the message a call appended stands
                         \* (0: it appended none, or clearChat removed it)
    userIndex,           \* where in the log the user message of a call stands
                         \* (0: the call was not accepted, or clearChat removed it)
    analysisData,        \* the context's analysisData (the `result` of useAnalysis)
    isAnalyzing,         \* the context's isAnalyzing (the `loading` of useAnalysis)
    error,               \* the `error` of useAnalysis
    apc,                 \* where the analyze call stands
    loadingToast,        \* the "Analyzing your data..." toast is on screen
    prevData,            \* analysisData when the last analyze call was made
    lastFiles,           \* the files of the last analyze call
    lastFetch,           \* what fetch did for the last POST /analyze that settled
    posted,              \* POST /analyze requests issued so far
    events,              \* events of the environment so far
    result,              \* the earlier useAnalysis: useState<AnalysisResult | null>(null)
    loading,             \* the earlier useAnalysis: useState(false)
    resultError,         \* the earlier useAnalysis: its error, useState<string | null>(null)
    simplePc,            \* where the analyze call of the earlier useAnalysis stands
    simplePosted         \* POST /analyze requests issued by the earlier useAnalysis

vars == <<messages, isLoading, isStreaming, conversationId, now, pc,
          assistantMessageId, pending, locked, request, reads, resolved,
          wire, received, accepted, appended, ownIndex, userIndex,
          analysisData, isAnalyzing, error, apc, loadingToast, prevData,
          lastFiles, lastFetch, posted, events,
          result, loading, resultError, simplePc, simplePosted>>

\* the state of the earlier useAnalysis
simpleVars == <<result, loading, resultError, simplePc, simplePosted>>

\* the state of useAnalysis
analysisVars == <<analysisData, isAnalyzing, error, apc, loadingToast, prevData,
                  lastFiles, lastFetch, posted, simpleVars>>

locals == <<assistantMessageId, pending, locked, request, reads, resolved,
            wire, received, accepted, appended>>

\* the state of useChatbot, the conversation id aside
chatVars == <<messages, isLoading, isStreaming, now, pc, locals, ownIndex, userIndex>>

NoRequest == [question |-> <<>>, conversation_id |-> 0]

Init ==
    /\ messages = <<Greeting(ClockStart)>>
    /\ isLoading = FALSE
    /\ isStreaming = FALSE
    /\ conversationId = 1
    /\ now = ClockStart
    /\ pc = [r \in Runs |-> "idle"]
    /\ assistantMessageId = [r \in Runs |-> NoId]
    /\ pending = [r \in Runs |-> FALSE]
    /\ locked = [r \in Runs |-> FALSE]
    /\ request = [r \in Runs |-> NoRequest]
    /\ reads = [r \in Runs |-> 0]
    /\ resolved = [r \in Runs |-> 0]
    /\ wire = [r \in Runs |-> <<>>]
    /\ received = [r \in Runs |-> <<>>]
    /\ accepted = [r \in Runs |-> <<>>]
    /\ appended = [r \in Runs |-> 0]
    /\ ownIndex = [r \in Runs |-> 0]
    /\ userIndex = [r \in Runs |-> 0]
    /\ analysisData = NoData
    /\ isAnalyzing = FALSE
    /\ error = NoError
    /\ apc = "idle"
    /\ loadingToast = FALSE
    /\ prevData = NoData
    /\ lastFiles = NoFiles
    /\ lastFetch = NoFetch
    /\ posted = 0
    /\ events = 0
    /\ result = NoData
    /\ loading = FALSE
    /\ resultError = NoError
    /\ simplePc = "idle"
    /\ simplePosted = 0

\* calls are numbered in the order they are made
NextCall(r) == pc[r] = "idle" /\ (IF r = 1 THEN TRUE ELSE pc[r - 1] # "idle")

Terminal == {"rejected", "done", "failed"}
InFlight == {"fetch", "read"}

(* ------------------------------ actions ------------------------------- *)

\* the clock moves on
Tick ==
    /\ events < MaxEvents
    /\ events' = events + 1
    /\ now' = now + 1
    /\ UNCHANGED <<messages, isLoading, isStreaming, conversationId, pc,
                   locals, ownIndex>>
    /\ UNCHANGED <<userIndex, analysisVars>>

\* sendMessage(content) returns at once: `if (!content.trim() || isLoading) return`
SendRejected(r, content) ==
    /\ NextCall(r)
    /\ events < MaxEvents
    /\ events' = events + 1
    /\ IsBlank(content) \/ isLoading
    /\ pc' = [pc EXCEPT ![r] = "rejected"]
    /\ UNCHANGED <<messages, isLoading, isStreaming, conversationId, now,
                   locals, ownIndex>>
    /\ UNCHANGED <<userIndex, analysisVars>>

\* sendMessage(content) is accepted: the user message is appended, isLoading
\* is set and the POST is issued; the call suspends at `await fetch`
Send(r, content) ==
    /\ NextCall(r)
    /\ events < MaxEvents
    /\ events' = events + 1
    /\ ~(IsBlank(content) \/ isLoading)
    /\ messages' = Append(messages, NewMessage(now, "user", Trim(content), now))
    /\ isLoading' = TRUE
    /\ request' = [request EXCEPT ![r] =
                      [question |-> Trim(content), conversation_id |-> conversationId]]
    /\ pc' = [pc EXCEPT ![r] = "fetch"]
    /\ UNCHANGED <<isStreaming, conversationId, now, assistantMessageId,
                   pending, locked, reads, resolved, wire, received, accepted,
                   appended, ownIndex>>
    /\ userIndex' = [userIndex EXCEPT ![r] = Len(messages) + 1]
    /\ UNCHANGED analysisVars

\* a variant of the `finally` block that leaves isStreaming as it is
Finally_KeepStreaming ==
    /\ isLoading' = FALSE
    /\ isStreaming' = isStreaming

\* the `finally` block
Finally ==
    /\ isLoading' = FALSE
    /\ isStreaming' = FALSE

\* the catch block followed by the finally block; the call returns
Fail(r) ==
    /\ messages' = CatchBlock(messages, assistantMessageId[r], now)
    /\ appended' = [appended EXCEPT ![r] =
                       IF assistantMessageId[r] = NoId THEN @ + 1 ELSE @]
    /\ ownIndex' = [ownIndex EXCEPT ![r] =
                       IF assistantMessageId[r] = NoId THEN Len(messages) + 1 ELSE @]
    /\ Finally
    /\ pc' = [pc EXCEPT ![r] = "failed"]

\* fetch rejects, or it resolves with a status that is not 2xx or with a
\* response that has no body (the two throws ahead of getReader): in each
\* case the catch block runs before any reader exists
FetchFail(r) ==
    /\ pc[r] = "fetch"
    /\ Fail(r)
    /\ UNCHANGED <<conversationId, now, assistantMessageId, pending, locked,
                   request, reads, resolved, wire, received, accepted, events>>
    /\ UNCHANGED <<userIndex, analysisVars>>

\* fetch resolves with a 2xx response that has a body: getReader() locks the
\* stream to the call's reader, the decoder is created and the first
\* reader.read() is issued
FetchOk(r) ==
    /\ pc[r] = "fetch"
    /\ pc' = [pc EXCEPT ![r] = "read"]
    /\ locked' = [locked EXCEPT ![r] = TRUE]
    /\ pending' = [pending EXCEPT ![r] = FALSE]
    /\ reads' = [reads EXCEPT ![r] = @ + 1]
    /\ UNCHANGED <<messages, isLoading, isStreaming, conversationId, now,
                   assistantMessageId, request, resolved, wire, received,
                   accepted, appended, ownIndex, events>>
    /\ UNCHANGED <<userIndex, analysisVars>>

\* a variant of the loop body that never looks at assistantMessageId and
\* appends a new message for every accepted chunk
ProcessChunk_AlwaysNew(r, chunk) ==
    IF Accepts(chunk)
    THEN /\ accepted' = [accepted EXCEPT ![r] = @ \o chunk]
         /\ assistantMessageId' = [assistantMessageId EXCEPT ![r] = now + 1]
         /\ messages' = Append(messages, NewMessage(now + 1, "assistant", chunk, now))
         /\ appended' = [appended EXCEPT ![r] = @ + 1]
         /\ ownIndex' = [ownIndex EXCEPT ![r] = Len(messages) + 1]
         /\ isStreaming' = TRUE
         /\ isLoading' = FALSE
    ELSE UNCHANGED <<accepted, assistantMessageId, messages, appended, ownIndex,
                     isStreaming, isLoading>>

\* the body of the read loop for one decoded chunk
ProcessChunk(r, chunk) ==
    IF Accepts(chunk)
    THEN /\ accepted' = [accepted EXCEPT ![r] = @ \o chunk]
         /\ IF assistantMessageId[r] = NoId
            THEN /\ assistantMessageId' = [assistantMessageId EXCEPT ![r] = now + 1]
                 /\ messages' = Append(messages,
                                       NewMessage(now + 1, "assistant", chunk, now))
                 /\ appended' = [appended EXCEPT ![r] = @ + 1]
                 /\ ownIndex' = [ownIndex EXCEPT ![r] = Len(messages) + 1]
                 /\ isStreaming' = TRUE
                 /\ isLoading' = FALSE
            ELSE /\ messages' = AppendChunk(messages, assistantMessageId[r], chunk)
                 /\ UNCHANGED <<assistantMessageId, appended, ownIndex,
                                isStreaming, isLoading>>
    ELSE UNCHANGED <<accepted, assistantMessageId, messages, appended, ownIndex,
                     isStreaming, isLoading>>

\* a variant in which the loop is not left at end-of-stream
Reading_NoBreak == {"read", "done"}

\* where a call stands while it is inside the read loop: `if (done) break`
\* leaves the loop for good
Reading == {"read"}

\* reader.read() resolves with { done: false, value }: the chunk is decoded
\* and processed, and the next reader.read() is issued
ReadValue(r, bytes) ==
    /\ pc[r] \in Reading
    /\ events + Len(bytes) <= MaxEvents
    /\ events' = events + Len(bytes)
    /\ wire' = [wire EXCEPT ![r] = @ \o bytes]
    /\ LET d == Decode(pending[r], bytes) IN
          /\ pending' = [pending EXCEPT ![r] = d.pend]
          /\ received' = [received EXCEPT ![r] = @ \o d.text]
          /\ ProcessChunk(r, d.text)
    /\ resolved' = [resolved EXCEPT ![r] = @ + 1]
    /\ reads' = [reads EXCEPT ![r] = @ + 1]
    /\ pc' = [pc EXCEPT ![r] = "read"]
    /\ UNCHANGED <<conversationId, now, request, locked>>
    /\ UNCHANGED <<userIndex, analysisVars>>

\* reader.read() resolves with { done: true }: break, finally, return; the
\* decoder is not called again and the reader is left as it is
ReadDone(r) ==
    /\ pc[r] = "read"
    /\ resolved' = [resolved EXCEPT ![r] = @ + 1]
    /\ Finally
    /\ pc' = [pc EXCEPT ![r] = "done"]
    /\ UNCHANGED <<messages, conversationId, now, assistantMessageId, pending,
                   locked, request, reads, wire, received, accepted, appended,
                   ownIndex, events>>
    /\ UNCHANGED <<userIndex, analysisVars>>

\* reader.read() rejects: catch, finally, return
ReadThrow(r) ==
    /\ pc[r] = "read"
    /\ resolved' = [resolved EXCEPT ![r] = @ + 1]
    /\ Fail(r)
    /\ UNCHANGED <<conversationId, now, assistantMessageId, pending, locked,
                   request, reads, wire, received, accepted, events>>
    /\ UNCHANGED <<userIndex, analysisVars>>

\* clearChat: the log is reset to the greeting and the conversation id renewed
ClearChat ==
    /\ events < MaxEvents
    /\ events' = events + 1
    /\ messages' = <<Greeting(now)>>
    /\ conversationId' = NewConversationId(conversationId)
    /\ ownIndex' = [r \in Runs |-> 0]
    /\ UNCHANGED <<isLoading, isStreaming, now, pc, locals>>
    /\ userIndex' = [r \in Runs |-> 0]
    /\ UNCHANGED analysisVars

\* what the caller of the hook can do: the functions the hook returns are
\* sendMessage and clearChat
CallerStep ==
    \/ ClearChat
    \/ \E r \in Runs, content \in Inputs : SendRejected(r, content)
    \/ \E r \in Runs, content \in Inputs : Send(r, content)

\* a variant of the `finally` block of analyze that leaves isAnalyzing up
AnalyzeFinally_Skip == isAnalyzing' = isAnalyzing

\* the `finally` block of analyze
AnalyzeFinally == isAnalyzing' = FALSE

\* The Analyze button is clicked (it is disabled while loading and while no
\* file is selected) and the validation finds a file missing: analyze sets
\* the error and returns
AnalyzeRejected(files) ==
    /\ ~isAnalyzing /\ FileCount(files) > 0
    /\ events < MaxEvents
    /\ events' = events + 1
    /\ MissingFiles(files) # <<>>
    /\ error' = MissingError(files)
    /\ lastFiles' = files
    /\ UNCHANGED <<analysisData, isAnalyzing, apc, loadingToast, prevData,
                   lastFetch, posted, conversationId, chatVars, simpleVars>>

\* the Analyze button is clicked with all four files: the flag goes up, the
\* error is reset, the loading toast is shown and POST /analyze is issued;
\* the call suspends at `await analyzeCsvs`
AnalyzeAccepted(files) ==
    /\ ~isAnalyzing /\ FileCount(files) > 0
    /\ events < MaxEvents
    /\ events' = events + 1
    /\ MissingFiles(files) = <<>>
    /\ isAnalyzing' = TRUE
    /\ error' = NoError
    /\ loadingToast' = TRUE
    /\ posted' = posted + 1
    /\ apc' = "wait"
    /\ prevData' = analysisData
    /\ lastFiles' = files
    /\ UNCHANGED <<analysisData, lastFetch, conversationId, chatVars, simpleVars>>

\* analyzeCsvs settles: the rest of the try block, or the catch block, and
\* the finally block.  After setAnalysisData, resetConversationId and the
\* dismissal of the toast the try block reads data.risk_alerts, which throws
\* a TypeError into the catch block when data is null.
AnalyzeSettled(o) ==
    /\ apc = "wait"
    /\ apc' = "idle"
    /\ lastFetch' = o
    /\ LET res == AnalyzeCsvs(o) IN
          IF res.returns
          THEN /\ analysisData' = res.data
               /\ conversationId' = NewConversationId(conversationId)
               /\ error' = IF res.data = NoData
                           THEN CatchError(Thrown("TypeError", NoStatus,
                                                  <<"Cannot read properties of null">>))
                           ELSE error
          ELSE /\ error' = CatchError(res)
               /\ UNCHANGED <<analysisData, conversationId>>
    /\ loadingToast' = FALSE
    /\ AnalyzeFinally
    /\ UNCHANGED <<prevData, lastFiles, posted, events, chatVars, simpleVars>>

(* The earlier useAnalysis (src/unnamed/part_001), a hook of its own with  *)
(* its own result, loading and error.                                      *)

\* what the earlier useAnalysis leaves alone
contextVars == <<analysisData, isAnalyzing, error, apc, loadingToast, prevData,
                 lastFiles, lastFetch, posted, conversationId, chatVars>>

\* setError("Please select all four CSV files.")
SimpleMissingError == <<"Please select all four CSV files.">>

\* analyze(files) with a file missing: the error is set and the call returns
SimpleRejected(files) ==
    /\ ~loading /\ FileCount(files) > 0
    /\ events < MaxEvents
    /\ events' = events + 1
    /\ \E f \in FileSlots : ~files[f]
    /\ resultError' = SimpleMissingError
    /\ UNCHANGED <<result, loading, simplePc, simplePosted, contextVars>>

\* analyze(files) with all four files: setLoading(true), setError(null) and
\* the call suspends at `await analyzeCsvs`
SimpleAccepted(files) ==
    /\ ~loading /\ FileCount(files) > 0
    /\ events < MaxEvents
    /\ events' = events + 1
    /\ \A f \in FileSlots : files[f]
    /\ loading' = TRUE
    /\ resultError' = NoError
    /\ simplePosted' = simplePosted + 1
    /\ simplePc' = "wait"
    /\ UNCHANGED <<result, contextVars>>

\* analyzeCsvs settles: setResult(data), or the catch block sets the message
\* of what was thrown; finally setLoading(false)
SimpleSettled(o) ==
    /\ simplePc = "wait"
    /\ simplePc' = "idle"
    /\ LET res == AnalyzeCsvs(o) IN
          IF res.returns
          THEN result' = res.data /\ UNCHANGED resultError
          ELSE resultError' = res.message /\ UNCHANGED result
    /\ loading' = FALSE
    /\ UNCHANGED <<simplePosted, events, contextVars>>

\* analyze of useAnalysis has not been called
ContextUnused == lastFiles = NoFiles

\* analyze of the earlier useAnalysis has not been called
SimpleUnused == resultError = NoError /\ simplePosted = 0

\* a dashboard is built on one of the two hooks
NextValidation ==
    \/ \E files \in Files : SimpleUnused /\ AnalyzeRejected(files)
    \/ \E files \in Files : SimpleUnused /\ AnalyzeAccepted(files)
    \/ \E o \in FetchOutcomes : SimpleUnused /\ AnalyzeSettled(o)
    \/ \E files \in Files : ContextUnused /\ SimpleRejected(files)
    \/ \E files \in Files : ContextUnused /\ SimpleAccepted(files)
    \/ \E o \in FetchOutcomes : ContextUnused /\ SimpleSettled(o)

SpecValidation == Init /\ [][NextValidation]_vars

Next ==
    \/ Tick
    \/ ClearChat
    \/ \E r \in Runs, content \in Inputs : SendRejected(r, content)
    \/ \E r \in Runs, content \in Inputs : Send(r, content)
    \/ \E r \in Runs : FetchFail(r)
    \/ \E r \in Runs : FetchOk(r)
    \/ \E r \in Runs, bytes \in AsciiChunks : ReadValue(r, bytes)
    \/ \E r \in Runs : ReadDone(r)
    \/ \E r \in Runs : ReadThrow(r)

Spec == Init /\ [][Next]_vars

\* One call whose reply is arbitrary bytes: the chunks may cut a two-byte
\* character in half, and the bytes need not be valid UTF-8.
NextBytes ==
    \/ \E content \in Inputs : Send(1, content)
    \/ FetchFail(1)
    \/ FetchOk(1)
    \/ \E bytes \in ByteChunks : ReadValue(1, bytes)
    \/ ReadDone(1)
    \/ ReadThrow(1)

SpecBytes == Init /\ [][NextBytes]_vars

\* One call whose reply is made of `data: ` lines, other lines and
\* whitespace, cut into chunks at line ends.
NextLines ==
    \/ \E content \in Inputs : Send(1, content)
    \/ FetchFail(1)
    \/ FetchOk(1)
    \/ \E bytes \in LineChunks : ReadValue(1, bytes)
    \/ ReadDone(1)
    \/ ReadThrow(1)

SpecLines == Init /\ [][NextLines]_vars

(* The variant of useChatbot that asks the mock BedrockService for the    *)
(* whole reply (src/unnamed/part_000).  It has its own log and isLoading,  *)
(* kept in `messages` and `isLoading`; nothing else of the streaming hook  *)
(* is used.                                                                *)

\* what the variant does not have
mockUnused == <<isStreaming, conversationId, assistantMessageId, pending, locked,
                request, reads, resolved, wire, received, accepted, analysisVars>>

\* the texts generateMockResponse chooses from
MockReplies == {<<"REPLY 1">>, <<"REPLY 2">>, <<"REPLY 3">>}

\* sendMessage(content) returns at once: `if (!content.trim() || isLoading) return`
MockSendRejected(r, content) ==
    /\ NextCall(r)
    /\ events < MaxEvents
    /\ events' = events + 1
    /\ IsBlank(content) \/ isLoading
    /\ pc' = [pc EXCEPT ![r] = "rejected"]
    /\ UNCHANGED <<messages, isLoading, now, appended, ownIndex, userIndex, mockUnused>>

\* sendMessage(content) is accepted: the user message is appended, isLoading
\* is set and the call suspends at `await bedrockService.sendMessage`
MockSend(r, content) ==
    /\ NextCall(r)
    /\ events < MaxEvents
    /\ events' = events + 1
    /\ ~(IsBlank(content) \/ isLoading)
    /\ messages' = Append(messages, NewMessage(now, "user", Trim(content), now))
    /\ userIndex' = [userIndex EXCEPT ![r] = Len(messages) + 1]
    /\ isLoading' = TRUE
    /\ pc' = [pc EXCEPT ![r] = "await"]
    /\ UNCHANGED <<now, appended, ownIndex, mockUnused>>

\* a variant of the `finally` block that leaves isLoading up
MockFinally_Skip == isLoading' = isLoading

\* the `finally` block of the variant
MockFinally == isLoading' = FALSE

\* the service call resolves: the reply is appended; finally
MockReply(r, reply) ==
    /\ pc[r] = "await"
    /\ messages' = Append(messages, NewMessage(now + 1, "assistant", reply, now))
    /\ appended' = [appended EXCEPT ![r] = @ + 1]
    /\ ownIndex' = [ownIndex EXCEPT ![r] = Len(messages) + 1]
    /\ MockFinally
    /\ pc' = [pc EXCEPT ![r] = "replied"]
    /\ UNCHANGED <<now, userIndex, events, mockUnused>>

\* the service call throws: the apology is appended; finally
MockThrow(r) ==
    /\ pc[r] = "await"
    /\ messages' = Append(messages, NewMessage(now + 1, "assistant", Apology, now))
    /\ appended' = [appended EXCEPT ![r] = @ + 1]
    /\ ownIndex' = [ownIndex EXCEPT ![r] = Len(messages) + 1]
    /\ MockFinally
    /\ pc' = [pc EXCEPT ![r] = "apologized"]
    /\ UNCHANGED <<now, userIndex, events, mockUnused>>

\* the service call of r settles
MockSettle(r) == MockThrow(r) \/ \E reply \in MockReplies : MockReply(r, reply)

\* clearChat of the variant: the log is reset to the greeting
MockClearChat ==
    /\ events < MaxEvents
    /\ events' = events + 1
    /\ messages' = <<Greeting(now)>>
    /\ ownIndex' = [r \in Runs |-> 0]
    /\ userIndex' = [r \in Runs |-> 0]
    /\ UNCHANGED <<isLoading, now, pc, appended, mockUnused>>

\* the clock moves on
MockTick ==
    /\ events < MaxEvents
    /\ events' = events + 1
    /\ now' = now + 1
    /\ UNCHANGED <<messages, isLoading, pc, appended, ownIndex, userIndex, mockUnused>>

NextMock ==
    \/ MockTick
    \/ MockClearChat
    \/ \E r \in Runs, content \in Inputs : MockSendRejected(r, content)
    \/ \E r \in Runs, content \in Inputs : MockSend(r, content)
    \/ \E r \in Runs, reply \in MockReplies : MockReply(r, reply)
    \/ \E r \in Runs : MockThrow(r)

\* The service call settles: the mock service awaits a timer of one to
\* three seconds and returns, and a promise that rejects settles as well.
SpecMock == Init /\ [][NextMock]_vars /\ \A r \in Runs : WF_vars(MockSettle(r))

\* The dashboard and the chat side by side: analyze calls, and the chat
\* requests that carry the conversation id.
NextAnalysis ==
    \/ \E files \in Files : AnalyzeRejected(files)
    \/ \E files \in Files : AnalyzeAccepted(files)
    \/ \E o \in FetchOutcomes : AnalyzeSettled(o)
    \/ \E r \in Runs, content \in Inputs : Send(r, content)
    \/ \E r \in Runs : FetchFail(r)
    \/ ClearChat

SpecAnalysis == Init /\ [][NextAnalysis]_vars

(* ------------------------------ claims -------------------------------- *)

MsgIdx == 1..Len(messages)

\* the call r is the only one that was ever accepted
Solo(r) == \A q \in Runs \ {r} : pc[q] \in {"idle", "rejected"}

\* the call r goes through its catch block in this step
Fails(r) == pc[r] \in InFlight /\ pc'[r] = "failed"

\* the call r processes a chunk in this step
ReadsChunk(r) == pc[r] = "read" /\ pc'[r] = "read" /\ resolved'[r] = resolved[r] + 1

\* C1: when a call that has already created its assistant message goes
\* through the catch block, that message (and every message of the log that
\* carries the call's assistantMessageId) has exactly the apology as its
\* content afterwards, not the partial text followed by the apology; the
\* log keeps its length and the call appends no further assistant message.
C1_ErrorOverwrite ==
    [][\A r \in Runs :
          (Fails(r) /\ assistantMessageId[r] # NoId) =>
              /\ Len(messages') = Len(messages)
              /\ appended'[r] = appended[r]
              /\ ownIndex[r] # 0 => messages'[ownIndex[r]].content = Apology
              /\ \A i \in MsgIdx :
                    messages[i].id = assistantMessageId[r] =>
                        messages'[i].content = Apology]_vars

\* a call that had shown partial content has failed and its message now
\* holds the apology
C1_Witness ==
    \E r \in Runs :
        /\ pc[r] = "failed"
        /\ accepted[r] # <<>>
        /\ ownIndex[r] # 0
        /\ messages[ownIndex[r]].id = assistantMessageId[r]
        /\ messages[ownIndex[r]].role = "assistant"
        /\ messages[ownIndex[r]].content = Apology

\* C2: when a call goes through the catch block before it created a
\* message (fetch failed, or a read threw before any non-whitespace chunk),
\* exactly one assistant message holding the apology is appended at the end
\* of the log; and when the failure comes from fetch, the status or the
\* missing body, no reader.read() was ever issued.
C2_ErrorBeforeContent ==
    [][\A r \in Runs :
          /\ (Fails(r) /\ assistantMessageId[r] = NoId) =>
                /\ messages' = Append(messages,
                                      NewMessage(now + 1, "assistant", Apology, now))
                /\ appended[r] = 0
                /\ appended'[r] = 1
          /\ (Fails(r) /\ pc[r] = "fetch") =>
                /\ assistantMessageId[r] = NoId
                /\ reads'[r] = 0
                /\ resolved'[r] = 0]_vars

\* one call failed before any read and another after a read that brought
\* only whitespace; the log ends with the user message and the apology of
\* the latter
C2_Witness ==
    \E r, q \in Runs :
        /\ pc[r] = "failed" /\ reads[r] = 0 /\ appended[r] = 1
        /\ pc[q] = "failed" /\ reads[q] > 1 /\ appended[q] = 1
        /\ assistantMessageId[q] = NoId
        /\ Len(messages) >= 2
        /\ messages[Len(messages)].role = "assistant"
        /\ messages[Len(messages)].content = Apology
        /\ messages[Len(messages) - 1].role = "user"

\* C3: whenever a call goes through the catch block, the log holds an
\* assistant message with the apology once the call has returned, whatever
\* the user did in between.
C3_ErrorAlwaysSurfaced ==
    [][\A r \in Runs :
          Fails(r) =>
              \E i \in 1..Len(messages') :
                  /\ messages'[i].role = "assistant"
                  /\ messages'[i].content = Apology]_vars

\* C4: at no time are two calls between acceptance and return.
C4_OneActiveRun == Cardinality({r \in Runs : pc[r] \in InFlight}) <= 1

\* the number of assistant messages a call has appended
C5_Count ==
    \A r \in Runs :
        /\ appended[r] <= 1
        /\ appended[r] = 1 <=> (assistantMessageId[r] # NoId \/ pc[r] = "failed")

\* what a chunk does to the length of the log
C5_Step ==
    \A r \in Runs :
        /\ (ReadsChunk(r) /\ assistantMessageId[r] # NoId) =>
              /\ Len(messages') = Len(messages)
              /\ assistantMessageId'[r] = assistantMessageId[r]
        /\ (ReadsChunk(r) /\ assistantMessageId[r] = NoId) =>
              Len(messages') \in {Len(messages), Len(messages) + 1}

\* C5: a call appends at most one assistant message to the log: one exactly
\* when it has created its message or has failed, and a chunk that arrives
\* once the message exists leaves the length of the log and the call's
\* assistantMessageId alone.
C5_AtMostOneAssistantMessage == []C5_Count /\ [][C5_Step]_vars

\* a call has read two non-whitespace chunks into its one message
C5_Witness ==
    \E r \in Runs :
        /\ resolved[r] >= 2
        /\ Len(accepted[r]) >= 2
        /\ appended[r] = 1
        /\ ownIndex[r] # 0
        /\ messages[ownIndex[r]].content = accepted[r]

\* no assistant message of the log is empty or only whitespace
C6_NoBlank ==
    \A i \in MsgIdx : messages[i].role = "assistant" => ~IsBlank(messages[i].content)

\* the steps in which a call appends an assistant message
C6_Step ==
    \A r \in Runs :
        /\ appended'[r] > appended[r] =>
              \/ Fails(r)
              \/ ReadsChunk(r) /\ Len(accepted'[r]) > Len(accepted[r])
        /\ (pc[r] = "read" /\ pc'[r] = "done" /\ assistantMessageId[r] = NoId) =>
              /\ messages' = messages
              /\ appended'[r] = 0

\* C6: no assistant message of the log is empty or only whitespace; a call
\* appends an assistant message only in a step that accepts a non-whitespace
\* chunk or that fails; and a stream that ends without any accepted chunk
\* leaves the log as it is.
C6_LazyCreation == []C6_NoBlank /\ [][C6_Step]_vars

\* a stream delivered whitespace only and ended: the call is done and the
\* log ends with the call's user message
C6_Witness ==
    \E r \in Runs :
        /\ pc[r] = "done"
        /\ received[r] # <<>>
        /\ assistantMessageId[r] = NoId
        /\ messages[Len(messages)].role = "user"

\* C7: from one state to the next, the content of the assistant message a
\* call has appended, as long as the message is in the log, keeps its old
\* content as a prefix, or becomes exactly the apology.
C7_ContentOnlyGrows ==
    [][\A r \in Runs :
          (ownIndex[r] # 0 /\ ownIndex'[r] = ownIndex[r]) =>
              \/ IsPrefix(messages[ownIndex[r]].content, messages'[ownIndex[r]].content)
              \/ messages'[ownIndex[r]].content = Apology]_vars

\* a message has grown by a second chunk whose text differs from the first
C7_Witness ==
    \E r \in Runs :
        /\ pc[r] = "read"
        /\ ownIndex[r] # 0
        /\ messages[ownIndex[r]].content = <<"a", " ", "a">>
        /\ resolved[r] = 2

\* C8: a call that has observed end-of-stream or has gone through its catch
\* block takes no further step: its position, its locals and its counters
\* of reads stay as they are.
C8_NoStepAfterEnd ==
    [][\A r \in Runs :
          pc[r] \in {"done", "failed"} =>
              /\ pc'[r] = pc[r]
              /\ assistantMessageId'[r] = assistantMessageId[r]
              /\ pending'[r] = pending[r]
              /\ reads'[r] = reads[r]
              /\ resolved'[r] = resolved[r]
              /\ received'[r] = received[r]
              /\ accepted'[r] = accepted[r]
              /\ appended'[r] = appended[r]]_vars

\* a call has ended and a later call is streaming into the log
C8_Witness ==
    \E r, q \in Runs :
        /\ pc[r] \in {"done", "failed"}
        /\ assistantMessageId[r] # NoId
        /\ pc[q] = "read"
        /\ assistantMessageId[q] # NoId

\* C9: when the only call ends normally, the content of its message is the
\* text T of the whole stream, as if T had come as one chunk: a message
\* holding T if T has a non-whitespace character, no message otherwise.
C9_ChunkBoundaryInvariance ==
    \A r \in Runs :
        (pc[r] = "done" /\ Solo(r)) =>
            IF Accepts(received[r])
            THEN /\ assistantMessageId[r] # NoId
                 /\ ownIndex[r] # 0 => messages[ownIndex[r]].content = received[r]
            ELSE assistantMessageId[r] = NoId

\* C10: a call has at most one reader.read() outstanding, and while it
\* streams and after it has ended normally the content of its assistant
\* message is the concatenation of the chunks it accepted, in arrival order.
C10_OrderedProcessing ==
    \A r \in Runs :
        /\ reads[r] - resolved[r] \in {0, 1}
        /\ (pc[r] \in {"read", "done"} /\ ownIndex[r] # 0) =>
              messages[ownIndex[r]].content = accepted[r]

\* C11: when the only call ends at end-of-stream, its message holds the
\* concatenation of every chunk the decoder produced, exactly as received,
\* and nothing of the catch block.
C11_PlainTextVerbatim ==
    \A r \in Runs :
        (pc[r] = "done" /\ Solo(r) /\ ownIndex[r] # 0) =>
            /\ messages[ownIndex[r]].content = received[r]
            /\ appended[r] = 1

\* C12: the messages of the log have pairwise distinct ids.
C12_UniqueIds ==
    \A i, j \in MsgIdx : i # j => messages[i].id # messages[j].id

\* C13: a streaming append or an error overwrite changes the message the
\* call itself appended and no other: every other message of the log stays
\* where it is with its id, role, content and timestamp.
C13_OlderMessagesUntouched ==
    [][\A r \in Runs :
          ((ReadsChunk(r) \/ Fails(r)) /\ assistantMessageId[r] # NoId) =>
              \A i \in MsgIdx :
                  i # ownIndex[r] => messages'[i] = messages[i]]_vars

\* C14: a call that has returned, at end-of-stream or through its catch
\* block, no longer holds the lock of its reader.
C14_ReaderReleased ==
    \A r \in Runs : pc[r] \in {"done", "failed"} => ~locked[r]

\* the number of places of s that hold c
Count(s, c) == Cardinality({i \in 1..Len(s) : s[i] = c})

\* the bytes w are valid UTF-8, except that the last byte may be a lead byte
\* whose continuation has not arrived yet
WellFormed(w) ==
    \A i \in 1..Len(w) :
        /\ w[i] = "T" => (i > 1 /\ w[i - 1] = "L")
        /\ (w[i] = "L" /\ i < Len(w)) => w[i + 1] = "T"

\* C15: as long as the bytes delivered so far are valid UTF-8, however the
\* chunks cut them, the decoded text and the content of the call's message
\* hold every two-byte character exactly once (one per continuation byte
\* delivered) and no replacement character; the message exists as soon as
\* one such character has been decoded.
C15_SplitCharacter ==
    \A r \in Runs :
        (pc[r] \in {"read", "done"} /\ WellFormed(wire[r])) =>
            /\ Count(received[r], "?") = 0
            /\ Count(received[r], "e") = Count(wire[r], "T")
            /\ Count(wire[r], "T") > 0 => ownIndex[r] # 0
            /\ ownIndex[r] # 0 =>
                  /\ Count(messages[ownIndex[r]].content, "?") = 0
                  /\ Count(messages[ownIndex[r]].content, "e") = Count(wire[r], "T")

\* the reply "a", lead byte, continuation byte came as three chunks: the
\* character was cut after the message existed, and the content is "a"
\* followed by the one character
C15_Witness ==
    /\ pc[1] = "done"
    /\ wire[1] = <<"a", "L", "T">>
    /\ resolved[1] = 4
    /\ ownIndex[1] # 0
    /\ messages[ownIndex[1]].content = <<"a", "e">>

\* C16: when the stream ends while the decoder holds a lead byte, the
\* call's message exists and ends with the replacement character.
C16_FinalFlush ==
    \A r \in Runs :
        (pc[r] = "done" /\ pending[r]) =>
            /\ ownIndex[r] # 0
            /\ messages[ownIndex[r]].content # <<>>
            /\ messages[ownIndex[r]].content[Len(messages[ownIndex[r]].content)] = "?"

\* C17: a call that waits for a chunk can be cancelled by the caller: some
\* operation the hook offers takes the call out of the read loop at once,
\* without a further reader.read(), leaving the log as it is (so the partial
\* content stays and no apology is written).
C17_Cancellation ==
    \A r \in Runs :
        (pc[r] = "read" /\ events < MaxEvents) =>
            ENABLED (/\ CallerStep
                     /\ pc'[r] # "read"
                     /\ reads'[r] = reads[r]
                     /\ messages' = messages)

\* the bytes the call receives in this step
StepChunk(r) == SubSeq(wire'[r], Len(wire[r]) + 1, Len(wire'[r]))

\* the content of the message the call appended, <<>> if there is none
OwnContent(r) == IF ownIndex[r] = 0 THEN <<>> ELSE messages[ownIndex[r]].content

C18_Step ==
    \A r \in Runs :
        /\ (ReadsChunk(r) /\ Count(StepChunk(r), LineDone) > 0) =>
              /\ reads'[r] = reads[r] + 1
              /\ ownIndex'[r] # 0
              /\ messages'[ownIndex'[r]].content = OwnContent(r) \o StepChunk(r)
              /\ isStreaming'
        /\ pc'[r] = "done" =>
              /\ pc[r] \in {"read", "done"}
              /\ wire'[r] = wire[r]
              /\ reads'[r] = reads[r]
              /\ OwnContent(r)' = OwnContent(r)

ContentField(line) == IF line = LineContent THEN <<"a">> ELSE <<>>

\* the concatenation of the `content` fields of the lines up to a done line
RECURSIVE ContentFields(_)
ContentFields(w) ==
    IF w = <<>> \/ Head(w) = LineDone
    THEN <<>>
    ELSE ContentField(Head(w)) \o ContentFields(Tail(w))

Visible(s) == SelectSeq(s, LAMBDA c : c # " ")

Stale(r) == pc[r] \in InFlight /\ request[r].conversation_id # conversationId

\* C21: clearChat leaves the log as the greeting with id 1 alone, and a call
\* that was sent before the reset and is still in flight adds no message to
\* the log afterwards, neither streamed content nor an apology.
C21_ClearChatIsolation ==
    [][/\ conversationId' # conversationId =>
             (Len(messages') = 1 /\ messages'[1].id = 1 /\ messages'[1].content = GreetingText)
       /\ \A r \in Runs :
             (Stale(r) /\ (ReadsChunk(r) \/ Fails(r))) =>
                 Len(messages') = Len(messages)]_vars

\* when no call is in flight both flags are down
C22_Idle ==
    (\A r \in Runs : pc[r] \notin InFlight) => (~isLoading /\ ~isStreaming)

\* what the steps of a call do to the flags
C22_Step ==
    \A r \in Runs :
        /\ (pc[r] = "idle" /\ pc'[r] = "fetch") => (~isLoading /\ isLoading')
        /\ (ReadsChunk(r) /\ assistantMessageId[r] = NoId /\ assistantMessageId'[r] # NoId) =>
              (~isLoading' /\ isStreaming')
        /\ (ReadsChunk(r) /\ assistantMessageId'[r] = assistantMessageId[r]) =>
              (isLoading' = isLoading /\ isStreaming' = isStreaming)
        /\ (pc[r] \in InFlight /\ pc'[r] \in {"done", "failed"}) =>
              (~isLoading' /\ ~isStreaming')

\* C22: isLoading goes up when a send is accepted and down at the call's
\* first non-whitespace chunk (where isStreaming goes up); the step in which
\* a call ends, at end-of-stream with or without content or through the
\* catch block, leaves isLoading and isStreaming both down; and whenever no
\* call is in flight both are down, so the send button is usable again.
C22_FlagsReset == []C22_Idle /\ [][C22_Step]_vars

\* a call that streamed content, one that failed and one whose stream ended
\* without content have all ended, and both flags are down
C22_Witness ==
    /\ ~isLoading /\ ~isStreaming
    /\ \E r, q, u \in Runs :
          /\ pc[r] = "done" /\ assistantMessageId[r] # NoId
          /\ pc[q] = "failed"
          /\ pc[u] = "done" /\ assistantMessageId[u] = NoId

\* s is not empty and neither starts nor ends with whitespace
IsTrimmed(s) == s # <<>> /\ s[1] # " " /\ s[Len(s)] # " "

\* the user message of a call stands before the message the call appended
C23_Order ==
    \A r \in Runs :
        /\ userIndex[r] # 0 => messages[userIndex[r]].role = "user"
        /\ ownIndex[r] # 0 => (userIndex[r] # 0 /\ userIndex[r] < ownIndex[r])

\* what accepting and rejecting a call does
C23_Step ==
    \A r \in Runs :
        /\ (pc[r] = "idle" /\ pc'[r] = "fetch") =>
              /\ IsTrimmed(request'[r].question)
              /\ messages' = Append(messages,
                     NewMessage(now, "user", request'[r].question, now))
              /\ userIndex'[r] = Len(messages')
              /\ appended'[r] = 0
              /\ reads'[r] = 0
        /\ (pc[r] = "idle" /\ pc'[r] = "rejected") =>
              /\ messages' = messages
              /\ isLoading' = isLoading
              /\ request'[r] = NoRequest
              /\ userIndex'[r] = 0

\* C23: an accepted call appends exactly one user message, holding the
\* trimmed input that is also the question of the request, at the end of
\* the log and before the call has read or appended anything; the assistant
\* or apology message the call appends, while it is in the log, stands after
\* that user message; a rejected call appends nothing, issues no request and
\* leaves isLoading as it is.
C23_UserMessageFirst == []C23_Order /\ [][C23_Step]_vars

\* the conversation ids of the chat requests sent so far
UsedIds == {request[r].conversation_id : r \in {q \in Runs : pc[q] \notin {"idle", "rejected"}}}

\* analyzeCsvs resolves in this step
AnalysisSucceeds == \E o \in FetchOutcomes : AnalyzeSettled(o) /\ AnalyzeCsvs(o).returns

\* analyzeCsvs throws in this step
AnalysisFails == \E o \in FetchOutcomes : AnalyzeSettled(o) /\ ~AnalyzeCsvs(o).returns

\* C24: a chat request carries the conversation id that is current when the
\* call is accepted; clearChat and an analysis whose request succeeds each
\* replace the id by a value that differs from the old one and from the id
\* of every request sent before; an analysis that is rejected by the
\* validation or whose request fails leaves the id as it is.
C24_ConversationIdFreshness ==
    [][/\ \A r \in Runs :
             (pc[r] = "idle" /\ pc'[r] = "fetch") =>
                 request'[r].conversation_id = conversationId
       /\ (ClearChat \/ AnalysisSucceeds) =>
             conversationId' \notin (UsedIds \cup {conversationId})
       /\ (AnalysisFails \/ \E files \in Files : AnalyzeRejected(files)) =>
             conversationId' = conversationId]_vars

\* a request before clearChat, one after it and one after a successful
\* analysis carry three different ids
C24_Witness ==
    /\ pc[1] = "failed" /\ pc[2] = "failed" /\ pc[3] = "fetch"
    /\ analysisData = "plan"
    /\ Cardinality({request[1].conversation_id, request[2].conversation_id,
                    request[3].conversation_id}) = 3
    /\ request[3].conversation_id = conversationId

\* the calls of the non-streaming variant that have settled
MockSettled == {"replied", "apologized"}

\* between acceptance and settlement a call has appended nothing and
\* isLoading is up; a settled call has appended exactly one message
C25_Count ==
    \A r \in Runs :
        /\ pc[r] = "await" => (appended[r] = 0 /\ isLoading /\ ownIndex[r] = 0)
        /\ pc[r] \in MockSettled => appended[r] = 1
        /\ (ownIndex[r] # 0 /\ userIndex[r] # 0) => userIndex[r] < ownIndex[r]

\* what the settlement of a call does
C25_Step ==
    \A r \in Runs :
        /\ (pc[r] = "await" /\ pc'[r] # "await") =>
              /\ pc'[r] \in MockSettled
              /\ Len(messages') = Len(messages) + 1
              /\ SubSeq(messages', 1, Len(messages)) = messages
              /\ messages'[Len(messages')].role = "assistant"
              /\ messages'[Len(messages')].content \in
                    (IF pc'[r] = "apologized" THEN {Apology} ELSE MockReplies)
              /\ ~isLoading'
        /\ pc[r] \in MockSettled => (pc'[r] = pc[r] /\ appended'[r] = appended[r])

\* C25: in the non-streaming variant every accepted call eventually settles;
\* it has appended its user message at acceptance and nothing else until it
\* settles, the step in which it settles appends exactly one assistant
\* message at the end of the log, the reply of the service or the apology
\* when the service call throws, and sets isLoading to false; a settled
\* call appends nothing more.
C25_ExactlyOneReply ==
    /\ \A r \in Runs : (pc[r] = "await") ~> (pc[r] \in MockSettled)
    /\ []C25_Count
    /\ [][C25_Step]_vars

\* one call got a reply and the next got the apology; each stands right
\* after the user message of its call and isLoading is down
C25_Witness ==
    /\ pc[1] = "replied" /\ pc[2] = "apologized"
    /\ ~isLoading
    /\ Len(messages) = 5
    /\ userIndex[1] = 2 /\ ownIndex[1] = 3 /\ messages[3].content \in MockReplies
    /\ userIndex[2] = 4 /\ ownIndex[2] = 5 /\ messages[5].content = Apology

\* the label the validation message uses for a slot
Label(f) ==
    CASE f = "sales"     -> "Sales history"
      [] f = "inventory" -> "Inventory"
      [] f = "materials" -> "Raw materials"
      [] OTHER           -> "Bill of materials"

\* the labels of the slots of files that are null
MissingLabels(files) == {Label(f) : f \in {g \in FileSlots : ~files[g]}}

\* the parts of a message
Parts(message) == {message[i] : i \in 1..Len(message)}

\* analyze(files) of useAnalysis is called in this step
AnalyzeCalled(files) == AnalyzeRejected(files) \/ AnalyzeAccepted(files)

\* analyze(files) of the earlier useAnalysis is called in this step
SimpleCalled(files) == SimpleRejected(files) \/ SimpleAccepted(files)

\* a call with a file missing leaves everything but the error as it was
C26_NothingElse ==
    \A files \in Files :
        (\E f \in FileSlots : ~files[f]) =>
            /\ AnalyzeCalled(files) =>
                  /\ posted' = posted /\ apc' = apc
                  /\ ~isAnalyzing /\ ~isAnalyzing' /\ ~loadingToast'
                  /\ analysisData' = analysisData
                  /\ conversationId' = conversationId
            /\ SimpleCalled(files) =>
                  /\ simplePosted' = simplePosted /\ simplePc' = simplePc
                  /\ ~loading /\ ~loading'
                  /\ result' = result

\* C26 as stated: in every useAnalysis a call with a file missing sets the
\* error to a message that names the missing files and changes nothing else.
C26_NamesMissingFiles ==
    [][/\ C26_NothingElse
       /\ \A files \in Files :
             (\E f \in FileSlots : ~files[f]) =>
                 /\ AnalyzeCalled(files) => MissingLabels(files) \subseteq Parts(error')
                 /\ SimpleCalled(files) => MissingLabels(files) \subseteq Parts(resultError')]_vars

\* C26: a call of analyze with a file missing sets the error, issues no
\* request, leaves loading false and leaves the result and the conversation
\* id as they were.  The error of useAnalysis is "Please select all required
\* files" followed by the labels of exactly the missing files; the error of
\* the earlier useAnalysis is the fixed text "Please select all four CSV
\* files.", whichever files are missing.
C26_ValidationRejects ==
    [][/\ C26_NothingElse
       /\ \A files \in Files :
             (\E f \in FileSlots : ~files[f]) =>
                 /\ AnalyzeCalled(files) =>
                       /\ Len(error') = 1 + Cardinality(MissingLabels(files))
                       /\ error'[1] = "Please select all required files"
                       /\ Parts(Tail(error')) = MissingLabels(files)
                 /\ SimpleCalled(files) => resultError' = SimpleMissingError]_vars

\* an analysis has succeeded and a later call without the bill of materials
\* was rejected: the result is still shown, one request was issued
C26_Witness ==
    /\ error = <<"Please select all required files", "Bill of materials">>
    /\ ~lastFiles["bom"] /\ lastFiles["sales"]
    /\ analysisData = "plan"
    /\ posted = 1 /\ ~isAnalyzing /\ apc = "idle"

\* the paths on which an accepted analyze call finishes
AnalyzePath(o) ==
    LET res == AnalyzeCsvs(o) IN
    IF res.returns THEN "success"
    ELSE IF res.status = 0 THEN "network failure"
    ELSE IF res.status # NoStatus /\ res.status >= 400 THEN "early return"
    ELSE "other error"

\* C27: isAnalyzing is true exactly while an accepted analyze call waits for
\* its request, and so is the loading toast on screen; the step in which the
\* request finishes sets isAnalyzing to false and dismisses the toast on
\* every path: success, network failure (status 0), the early return for a
\* status of 400 or more, and any other thrown error.
C27_LoadingFlag ==
    /\ [](/\ isAnalyzing <=> apc = "wait"
          /\ loadingToast <=> apc = "wait")
    /\ [][/\ (\E files \in Files : AnalyzeAccepted(files)) => isAnalyzing'
          /\ (\E files \in Files : AnalyzeRejected(files)) => ~isAnalyzing'
          /\ \A o \in FetchOutcomes :
                AnalyzeSettled(o) =>
                    /\ AnalyzePath(o) \in {"success", "network failure",
                                           "early return", "other error"}
                    /\ isAnalyzing /\ ~isAnalyzing'
                    /\ loadingToast /\ ~loadingToast']_vars

\* the second accepted call has finished by the early return for status 404
C27_Witness ==
    /\ posted = 2 /\ apc = "idle"
    /\ AnalyzePath(lastFetch) = "early return"
    /\ ~isAnalyzing /\ ~loadingToast

\* C28: when an accepted analyze call finishes, either the request has
\* succeeded, the result is the returned data and the error is null, or the
\* request has failed, the error is set and the result is what it was
\* before the call.
C28_AnalysisOutcome ==
    [][\A o \in FetchOutcomes :
          AnalyzeSettled(o) =>
              \/ /\ AnalyzeCsvs(o).returns
                 /\ analysisData' = AnalyzeCsvs(o).data
                 /\ error' = NoError
              \/ /\ ~AnalyzeCsvs(o).returns
                 /\ error' # NoError
                 /\ analysisData' = prevData]_vars

\* The messages the claim allows for the body of a response that is not ok.
\* Where its wording leaves the case open (a JSON body with neither field,
\* a body that cannot be read) the message of the code is allowed as well.
C29_Messages(status, body) ==
    CASE body = "json_message" -> {<<"json.message">>}
      [] body = "json_error"   -> {<<"json.error">>}
      [] body = "json_other"   -> {<<"text", body>>, <<"HTTP", StatusString(status)>>}
      [] body = "json_null"    -> {<<"text", body>>}
      [] body = "text"         -> {<<"text", body>>}
      [] body = "empty"        -> {<<"HTTP", StatusString(status)>>}
      [] OTHER                 -> {<<"HTTP", StatusString(status)>>,
                                   <<"HTTP", StatusString(status), "statusText">>}

\* C29: for a response that is not 2xx analyzeCsvs returns nothing and throws
\* an error with the HTTP status and with the message of the body (its JSON
\* message or error field, else its text, else "HTTP <status>"); a TypeError
\* of fetch is thrown on as an error with status 0; analyze sets the error to
\* "Network connection failed" for status 0 and to the thrown message for a
\* status of 400 or more.
C29_ErrorMapping ==
    [][\A o \in FetchOutcomes :
          AnalyzeSettled(o) =>
              LET res == AnalyzeCsvs(o) IN
              /\ (o.kind = "response" /\ ~IsOk(o.status)) =>
                    /\ ~res.returns
                    /\ res.status = o.status
                    /\ res.message \in C29_Messages(o.status, o.body)
                    /\ o.status >= 400 => error' = res.message
              /\ o.kind = "reject" =>
                    /\ ~res.returns
                    /\ res.status = 0
                    /\ error' = <<"Network connection failed">>]_vars

====
